---------------------------- MODULE Spec2Model ----------------------------
(***************************************************************************)
(* Model of src/main.py: a Streamlit currency converter.  One script run   *)
(* per user interaction; two resolvers (get_live_rates and                 *)
(* get_historical_rates) wrapped in st.cache_data; the Convert button      *)
(* handler that looks the target currency up and renders the result.       *)
(*                                                                         *)
(* Rates are floats in the program; here they are exact fractions <<n, d>> *)
(* in lowest terms, so rounding of a float division is not modelled.       *)
(* Amounts are in hundredths (the number_input has two decimals).          *)
(* Dates are proleptic Gregorian ordinals, as datetime.date.toordinal().   *)
(***************************************************************************)
EXTENDS Integers, Sequences, FiniteSets, TLC

VARIABLES
    now,            \* seconds of the monotonic clock since the process started
    live_cache,     \* st.cache_data(ttl=3600) store of get_live_rates
    hist_cache,     \* st.cache_data store of get_historical_rates
    use_historical, \* the toggle's widget state
    query_date,     \* the date_input's widget state (None: not rendered)
    requests,       \* number of requests.get calls made so far
    last,           \* what the handler did in the script run just made
    live_log,       \* history: per base, the last fetch of the live endpoint
    hist_log        \* history: per (base, date), the first resolution

vars == <<now, live_cache, hist_cache, use_historical, query_date,
          requests, last, live_log, hist_log>>

\* ------------------------------------------------------------------ bounds

\* Outbound requests made in one behaviour.
MaxRequests == 2
\* Clock advances in one behaviour, each of ClockStep seconds.
MaxTicks == 3
ClockStep == 1800
\* The provider's rates are the integers 0..MaxRate.
MaxRate == 2

\* ------------------------------------------------------ datetime.date

IsLeap(y) == (y % 4 = 0) /\ ((y % 100 # 0) \/ (y % 400 = 0))

DaysInMonth(y, m) ==
    IF m = 2 THEN (IF IsLeap(y) THEN 29 ELSE 28)
    ELSE IF m \in {4, 6, 9, 11} THEN 30 ELSE 31

RECURSIVE DaysBeforeMonth(_, _)
DaysBeforeMonth(y, m) ==
    IF m = 1 THEN 0 ELSE DaysBeforeMonth(y, m - 1) + DaysInMonth(y, m - 1)

DaysBeforeYear(y) ==
    LET p == y - 1 IN p * 365 + (p \div 4) - (p \div 100) + (p \div 400)

\* date(y, m, d), as its ordinal
date(y, m, d) == DaysBeforeYear(y) + DaysBeforeMonth(y, m) + d

\* the year, month and day of an ordinal
YearOf(n) ==
    LET y == ((n * 400) \div 146097) + 1
    IN IF n <= DaysBeforeYear(y) THEN y - 1
       ELSE IF n > DaysBeforeYear(y + 1) THEN y + 1 ELSE y
MonthOf(n) ==
    LET y == YearOf(n)
        r == n - DaysBeforeYear(y)
    IN CHOOSE m \in 1 .. 12 :
          DaysBeforeMonth(y, m) < r /\ r <= DaysBeforeMonth(y, m) + DaysInMonth(y, m)
DayOf(n) == n - DaysBeforeYear(YearOf(n)) - DaysBeforeMonth(YearOf(n), MonthOf(n))

Digit(k) == <<"0", "1", "2", "3", "4", "5", "6", "7", "8", "9">>[k + 1]

RECURSIVE Pad(_, _)
\* the decimal digits of k, zero-padded to width w
Pad(k, w) == IF w = 0 THEN <<>> ELSE Pad(k \div 10, w - 1) \o <<Digit(k % 10)>>

\* d.strftime("%Y<sep>%m<sep>%d")
strftime(d, sep) ==
    Pad(YearOf(d), 4) \o <<sep>> \o Pad(MonthOf(d), 2) \o <<sep>> \o Pad(DayOf(d), 2)

SecondsPerDay == 24 * 60 * 60

\* The process starts on 2024-02-29 at 23:30:00.
StartDay == date(2024, 2, 29)
StartSecond == 23 * 3600 + 30 * 60

\* date.today()
Today(t) == StartDay + ((StartSecond + t) \div SecondsPerDay)

\* ------------------------------------------------------------- fractions

RECURSIVE Gcd(_, _)
Gcd(a, b) == IF b = 0 THEN a ELSE Gcd(b, a % b)

Frac(n, d) == LET g == Gcd(n, d) IN <<n \div g, d \div g>>

\* rate / base_rate_vs_usd.  Python raises ZeroDivisionError for a zero
\* divisor, which get_historical_rates never passes; <<0, 0>> stands for it.
Divide(x, y) == IF y[1] = 0 THEN <<0, 0>> ELSE Frac(x[1] * y[2], x[2] * y[1])

\* amount * conversion_rate
Times(k, x) == Frac(k * x[1], x[2])

\* ---------------------------------------------------------- Python values

\* None, a dict, a float, a str and a date are told apart by a tag.
PyNone == [t |-> "None"]
Dict(f) == [t |-> "dict", v |-> f]
Float(q) == [t |-> "float", v |-> q]
Str(s) == [t |-> "str", v |-> s]
Date(n) == [t |-> "date", v |-> n]

IsNone(x) == x.t = "None"

\* Python truthiness: None, 0, 0.0, {} and "" are falsy; a date never is
Truthy(x) ==
    CASE x.t = "None" -> FALSE
      [] x.t = "dict" -> DOMAIN x.v # {}
      [] x.t = "float" -> x.v[1] # 0
      [] x.t = "str" -> x.v # <<>>
      [] OTHER -> TRUE

\* dict.get(key) of a rate table
Get(rates, k) == IF k \in DOMAIN rates THEN Float(rates[k]) ELSE PyNone

\* ------------------------------------------------------------ the provider

common_currencies ==
    <<"USD", "EUR", "GBP", "JPY", "CAD", "AUD", "CHF", "CNY", "INR", "BRL", "RUB", "ZAR">>

\* The currencies of the model: the first two of the select boxes.
Currencies == {common_currencies[1], common_currencies[2]}

\* A JSON rate table: any subset of the currencies, each with a rate.
Tables ==
    UNION {[S -> {Frac(k, 1) : k \in 0 .. MaxRate}] : S \in SUBSET Currencies}

\* The tables of a provider that lists every currency or all but the last.
CoreTables ==
    {[c \in Currencies |-> IF c = "USD" THEN Frac(1, 1) ELSE Frac(MaxRate, 1)],
     [c \in {"USD"} |-> Frac(1, 1)]}

\* What requests.get and the provider can answer: no connection, a
\* non-success HTTP status, a body whose result is not "success", or a
\* body with result "success" and a table.
NoTable == [c \in {} |-> Frac(0, 1)]

Failures ==
    {[connected |-> FALSE, status |-> 0, result |-> "", rates |-> NoTable],
     [connected |-> TRUE, status |-> 500, result |-> "", rates |-> NoTable],
     [connected |-> TRUE, status |-> 200, result |-> "error", rates |-> NoTable]}

Successes(tables) ==
    {[connected |-> TRUE, status |-> 200, result |-> "success", rates |-> tb] :
        tb \in tables}

Responses(tables) == Failures \cup Successes(tables)

\* response.raise_for_status() passes
StatusOk(response) == response.status >= 200 /\ response.status < 400

\* --------------------------------------------------------- the resolvers

NetworkError == "Network Error: Could not connect to the API."
ApiError == "API Error"
BaseUnavailable == "Historical data not available"
RateNotFound == "Could not find the exchange rate"

Failed == <<PyNone, PyNone>>

\* A faulty variant: the as-of date in the format of the historical URL
LiveAsOf_UrlFormat(today) == strftime(today, "/")

\* the as-of date get_live_rates returns
LiveAsOf(today) == strftime(today, "-")

\* The body of get_live_rates: one requests.get, then the result or an error.
LiveBody(base_currency, today, response) ==
    LET api_url == <<"/v6/latest/", base_currency>>
    IN IF ~response.connected \/ ~StatusOk(response)
       THEN [ret |-> Failed, elements |-> <<NetworkError>>, urls |-> <<api_url>>]
       ELSE IF response.result = "success"
       THEN [ret |-> <<Dict(response.rates), Str(LiveAsOf(today))>>,
             elements |-> <<>>, urls |-> <<api_url>>]
       ELSE [ret |-> Failed, elements |-> <<ApiError>>, urls |-> <<api_url>>]

\* A faulty variant: only an absent base counts, a zero rate does not
BaseMissing_AbsentOnly(base_rate_vs_usd) == IsNone(base_rate_vs_usd)

\* the base currency cannot be used to re-base
BaseMissing(base_rate_vs_usd) == ~Truthy(base_rate_vs_usd)

\* A faulty variant: the rates multiplied by the base's rate
Rebase_Multiply(rates, base_rate_vs_usd) ==
    [currency \in DOMAIN rates |->
        Frac(rates[currency][1] * base_rate_vs_usd[1],
             rates[currency][2] * base_rate_vs_usd[2])]

\* {currency: rate / base_rate_vs_usd for currency, rate in rates.items()}
Rebase(rates, base_rate_vs_usd) ==
    [currency \in DOMAIN rates |-> Divide(rates[currency], base_rate_vs_usd)]

\* the as-of date get_historical_rates returns
HistAsOf(query_date_) == strftime(query_date_, "-")

\* The body of get_historical_rates.
HistBody(base_currency, query_date_, today, response) ==
    LET date_str == strftime(query_date_, "/")
        api_url == <<"/v6/historical/">> \o date_str
    IN IF ~response.connected \/ ~StatusOk(response)
       THEN [ret |-> Failed, elements |-> <<NetworkError>>, urls |-> <<api_url>>]
       ELSE IF response.result = "success"
       THEN LET rates == response.rates
                base_rate_vs_usd == Get(rates, base_currency)
            IN IF BaseMissing(base_rate_vs_usd)
               THEN [ret |-> Failed, elements |-> <<BaseUnavailable>>,
                     urls |-> <<api_url>>]
               ELSE [ret |-> <<Dict(Rebase(rates, base_rate_vs_usd.v)),
                               Str(HistAsOf(query_date_))>>,
                     elements |-> <<>>, urls |-> <<api_url>>]
       ELSE [ret |-> Failed, elements |-> <<ApiError>>, urls |-> <<api_url>>]

\* ------------------------------------------------------- st.cache_data

TTL == 3600

\* A faulty variant: no ttl: an entry never expires
Expired_NoTtl(stored, ttl, t, at_boundary) == FALSE

\* An entry stored at `stored` is gone once it is older than the ttl; at
\* an age of exactly the ttl the library decides (at_boundary).
Expired(stored, ttl, t, at_boundary) ==
    (t - stored > ttl) \/ (t - stored = ttl /\ at_boundary)

\* A faulty variant: a failed fetch falls back on the expired entry's rates
get_live_rates_Stale(base_currency, cache, t, at_boundary, response) ==
    IF base_currency \in DOMAIN cache
          /\ ~Expired(cache[base_currency].stored, TTL, t, at_boundary)
    THEN [ret |-> cache[base_currency].ret,
          elements |-> cache[base_currency].elements,
          urls |-> <<>>, cache |-> cache]
    ELSE LET b == LiveBody(base_currency, Today(t), response)
         IN IF IsNone(b.ret[1]) /\ base_currency \in DOMAIN cache
            THEN [ret |-> cache[base_currency].ret, elements |-> b.elements,
                  urls |-> b.urls, cache |-> cache]
            ELSE [ret |-> b.ret, elements |-> b.elements, urls |-> b.urls,
                  cache |-> (base_currency :>
                               [ret |-> b.ret, elements |-> b.elements,
                                stored |-> t])
                            @@ cache]

\* @st.cache_data(ttl=3600) def get_live_rates(base_currency)
get_live_rates(base_currency, cache, t, at_boundary, response) ==
    IF base_currency \in DOMAIN cache
          /\ ~Expired(cache[base_currency].stored, TTL, t, at_boundary)
    THEN [ret |-> cache[base_currency].ret,
          elements |-> cache[base_currency].elements,
          urls |-> <<>>, cache |-> cache]
    ELSE LET b == LiveBody(base_currency, Today(t), response)
         IN [ret |-> b.ret, elements |-> b.elements, urls |-> b.urls,
             cache |-> (base_currency :>
                          [ret |-> b.ret, elements |-> b.elements, stored |-> t])
                       @@ cache]

\* A faulty variant: the historical results are not cached
HistHit_Uncached(key, cache, t) == FALSE

\* the historical cache has an entry for the key that it may serve
HistHit(key, cache, t) == key \in DOMAIN cache

\* @st.cache_data def get_historical_rates(base_currency, query_date)
get_historical_rates(base_currency, query_date_, cache, t, response) ==
    LET key == <<base_currency, query_date_>>
    IN IF HistHit(key, cache, t)
       THEN [ret |-> cache[key].ret, elements |-> cache[key].elements,
             urls |-> <<>>, cache |-> cache]
       ELSE LET b == HistBody(base_currency, query_date_, Today(t), response)
            IN [ret |-> b.ret, elements |-> b.elements, urls |-> b.urls,
                cache |-> (key :> [ret |-> b.ret, elements |-> b.elements])
                          @@ cache]

\* --------------------------------------------------------------- the page

\* number_input("Amount", min_value=0.01, value=100.00), in hundredths
Amounts == {1, 10000}

\* min_value, max_value and value of the date_input
MinValue == date(1999, 1, 1)
\* A faulty variant: max_value=date.today()
MaxValue_Today(today) == today
MaxValue(today) == today - 1
DefaultValue(today) == today - 365

\* The dates a user tries to pick on day `today`: around both ends of the
\* date_input's range.
Picks(today) == {MinValue - 1, MinValue, today - 1, today}

\* A faulty variant: a failed historical resolution falls back on the live rates
Resolve_Fallback(use_hist, qd, from_currency, lc, hc, t, at_boundary, response) ==
    IF use_hist /\ Truthy(qd)
    THEN LET h == get_historical_rates(from_currency, qd.v, hc, t, response)
             l == get_live_rates(from_currency, lc, t, at_boundary, response)
         IN IF IsNone(h.ret[1])
            THEN [called |-> <<"get_historical_rates", "get_live_rates">>,
                  ret |-> l.ret, elements |-> h.elements \o l.elements,
                  urls |-> h.urls \o l.urls,
                  live_cache |-> l.cache, hist_cache |-> h.cache]
            ELSE [called |-> <<"get_historical_rates">>, ret |-> h.ret,
                  elements |-> h.elements, urls |-> h.urls,
                  live_cache |-> lc, hist_cache |-> h.cache]
    ELSE LET r == get_live_rates(from_currency, lc, t, at_boundary, response)
         IN [called |-> <<"get_live_rates">>, ret |-> r.ret,
             elements |-> r.elements, urls |-> r.urls,
             live_cache |-> r.cache, hist_cache |-> hc]

\* if use_historical and query_date: get_historical_rates(...) else: get_live_rates(...)
Resolve(use_hist, qd, from_currency, lc, hc, t, at_boundary, response) ==
    IF use_hist /\ Truthy(qd)
    THEN LET r == get_historical_rates(from_currency, qd.v, hc, t, response)
         IN [called |-> <<"get_historical_rates">>, ret |-> r.ret,
             elements |-> r.elements, urls |-> r.urls,
             live_cache |-> lc, hist_cache |-> r.cache]
    ELSE LET r == get_live_rates(from_currency, lc, t, at_boundary, response)
         IN [called |-> <<"get_live_rates">>, ret |-> r.ret,
             elements |-> r.elements, urls |-> r.urls,
             live_cache |-> r.cache, hist_cache |-> hc]

\* conversion_rate is usable
RateFound(conversion_rate) == Truthy(conversion_rate)

\* if rates: ... the result, or the error that the rate was not found
Display(amount, to_currency, rates, rate_date) ==
    IF Truthy(rates)
    THEN LET conversion_rate == Get(rates.v, to_currency)
         IN IF RateFound(conversion_rate)
            THEN [result |-> <<[converted_amount |-> Times(amount, conversion_rate.v),
                                conversion_rate |-> conversion_rate.v,
                                rate_date |-> rate_date]>>,
                  elements |-> <<>>]
            ELSE [result |-> <<>>, elements |-> <<RateNotFound>>]
    ELSE [result |-> <<>>, elements |-> <<>>]

NoAttempt ==
    [called |-> <<>>, from_currency |-> "", to_currency |-> "", amount |-> 0,
     query_date |-> PyNone, at |-> 0, urls |-> <<>>, answers |-> <<>>,
     ret |-> Failed,
     errors |-> <<>>, result |-> <<>>, prior |-> <<>>]

Init ==
    /\ now = 0
    /\ live_cache = <<>>
    /\ hist_cache = <<>>
    /\ use_historical = FALSE
    /\ query_date = PyNone
    /\ requests = 0
    /\ last = NoAttempt
    /\ live_log = <<>>
    /\ hist_log = <<>>

\* Time passes; no script runs.
Tick ==
    /\ now < MaxTicks * ClockStep
    /\ now' = now + ClockStep
    /\ last' = NoAttempt
    /\ UNCHANGED <<live_cache, hist_cache, use_historical, query_date,
                   requests, live_log, hist_log>>

\* The user flips "Get Historical Rate"; the script runs, Convert not
\* pressed.  A date_input that was not rendered starts from its default.
Toggle ==
    /\ use_historical' = ~use_historical
    /\ query_date' = IF use_historical' THEN Date(DefaultValue(Today(now))) ELSE PyNone
    /\ last' = NoAttempt
    /\ UNCHANGED <<now, live_cache, hist_cache, requests, live_log, hist_log>>

\* The user picks a date the date_input accepts; the script runs, Convert
\* not pressed.  (A date_input whose default and max_value moved with the
\* day may start again from its default; Toggle twice reaches that state.)
PickDate ==
    /\ use_historical
    /\ \E d \in Picks(Today(now)) :
         /\ MinValue <= d /\ d <= MaxValue(Today(now))
         /\ query_date' = Date(d)
    /\ last' = NoAttempt
    /\ UNCHANGED <<now, live_cache, hist_cache, use_historical, requests,
                   live_log, hist_log>>

\* The answers a request can get; with the budget spent no request is
\* made, and one answer stands for all.
Answers(responses, budget) ==
    IF requests < budget THEN responses ELSE {CHOOSE x \in responses : TRUE}

\* What the library can decide about the live entry of a base: something
\* only when the entry's age is exactly the ttl.
BoundaryChoices(base_currency) ==
    IF base_currency \in DOMAIN live_cache
          /\ now - live_cache[base_currency].stored = TTL
    THEN BOOLEAN ELSE {FALSE}

\* The user presses Convert: the script runs and the handler resolves the
\* rates, looks the target up and renders.
Convert(responses, amounts, targets, budget) ==
    \E amount \in amounts, from_currency \in Currencies, to_currency \in targets,
       response \in Answers(responses, budget) :
    \E at_boundary \in BoundaryChoices(from_currency) :
    \E r \in {Resolve(use_historical, query_date, from_currency, live_cache,
                      hist_cache, now, at_boundary, response)} :
    \E shown \in {Display(amount, to_currency, r.ret[1], r.ret[2])} :
      LET key == <<from_currency, query_date>>
          historical == r.called = <<"get_historical_rates">>
      IN /\ requests + Len(r.urls) <= budget
         /\ requests' = requests + Len(r.urls)
         /\ live_cache' = r.live_cache
         /\ hist_cache' = r.hist_cache
         /\ last' = [called |-> r.called, from_currency |-> from_currency,
                     to_currency |-> to_currency, amount |-> amount,
                     query_date |-> query_date, at |-> now,
                     urls |-> r.urls,
                     answers |-> [i \in 1 .. Len(r.urls) |-> response],
                     ret |-> r.ret,
                     errors |-> r.elements \o shown.elements,
                     result |-> shown.result,
                     prior |-> IF historical
                               THEN (IF key \in DOMAIN hist_log
                                     THEN <<hist_log[key]>> ELSE <<>>)
                               ELSE (IF from_currency \in DOMAIN live_log
                                     THEN <<live_log[from_currency]>> ELSE <<>>)]
         /\ live_log' = IF ~historical /\ r.urls # <<>>
                        THEN (from_currency :> [at |-> now, ret |-> r.ret])
                             @@ live_log
                        ELSE live_log
         /\ hist_log' = IF historical /\ key \notin DOMAIN hist_log
                        THEN (key :> [ret |-> r.ret]) @@ hist_log
                        ELSE hist_log
         /\ UNCHANGED <<now, use_historical, query_date>>

ConvertCore == Convert(Responses(CoreTables), {10000}, {"EUR"}, MaxRequests)

Next == Tick \/ Toggle \/ PickDate \/ ConvertCore

\* The page over time: a provider whose tables are the CoreTables, the
\* default amount, conversions to EUR.
Spec == Init /\ [][Next]_vars

ConvertOnce == Convert(Responses(Tables), Amounts, Currencies, 1)

NextTables == Tick \/ Toggle \/ PickDate \/ ConvertOnce

\* The page over time with one request, answered with any table.
SpecTables == Init /\ [][NextTables]_vars

\* ------------------------------------------------------------- the claims

Attempted == last.called # <<>>
Live == last.called = <<"get_live_rates">>
Historical == last.called = <<"get_historical_rates">>
Fetched == last.urls # <<>>
Resolved == ~IsNone(last.ret[1])
Shown(message) == \E i \in 1 .. Len(last.errors) : last.errors[i] = message
HasPrior == last.prior # <<>>
Age == last.at - last.prior[1].at

\* C1: a press of Convert calls exactly one of the two resolvers and makes
\* at most one outbound request, whatever the outcome.
C1_AtMostOneRequest ==
    Attempted => Len(last.called) = 1 /\ Len(last.urls) <= 1

\* a failed attempt that made its one request
C1_Witness ==
    Attempted /\ ~Resolved /\ Len(last.urls) = 1 /\ last.errors # <<>>

\* C2: a live resolution for a base whose entry was stored more than 3600
\* seconds ago fetches afresh; one made less than 3600 seconds after the
\* entry was stored makes no request and returns the stored result.
C2_LiveCacheExpiry ==
    Live /\ HasPrior =>
        /\ Age > TTL => Fetched
        /\ Age < TTL => ~Fetched /\ last.ret = last.prior[1].ret

\* a live resolution that found an entry older than the ttl and fetched
C2_Witness == Live /\ HasPrior /\ Age > TTL /\ Fetched

\* C3: a historical query resolved before is served again with the same
\* result and without a request, at any later time.
C3_HistoricalCacheHit ==
    Historical /\ HasPrior => ~Fetched /\ last.ret = last.prior[1].ret

\* a repeated historical query, later than the live ttl, after two requests
C3_Witness ==
    Historical /\ HasPrior /\ ~Fetched /\ last.at > TTL /\ requests >= 2

\* C4: an attempt that showed a failure (a resolver's error, or the target
\* rate not found) rendered no converted amount.
C4_FailureYieldsNoConversion ==
    Attempted /\ last.errors # <<>> => last.result = <<>>

\* a fetch that failed for a base fetched with success before
C4_Witness ==
    /\ Live /\ HasPrior /\ Fetched /\ ~Resolved /\ last.errors # <<>>
    /\ ~IsNone(last.prior[1].ret[1])

\* C5: the caches hold successful results only, and a query that failed
\* before is fetched again when the user repeats it.
C5_CacheHoldsSuccessesOnly ==
    /\ \A b \in DOMAIN live_cache : ~IsNone(live_cache[b].ret[1])
    /\ \A k \in DOMAIN hist_cache : ~IsNone(hist_cache[k].ret[1])
    /\ Attempted /\ HasPrior /\ IsNone(last.prior[1].ret[1]) => Fetched

\* C6: get_historical_rates is only called with a date from 1999-01-01 on
\* and strictly before the day of the call.
C6_DateBoundary ==
    Historical =>
        /\ MinValue <= last.query_date.v
        /\ last.query_date.v < Today(last.at)

\* a historical resolution for the day before the call
C6_Witness == Historical /\ last.query_date.v = Today(last.at) - 1

\* C7 as stated: a successful live resolution carries the day of the
\* attempt, a successful historical one the requested date and never today.
C7_LiveAsOfIsToday ==
    /\ Live /\ Resolved => last.ret[2] = Str(strftime(Today(last.at), "-"))
    /\ Historical /\ Resolved =>
          /\ last.ret[2] = Str(strftime(last.query_date.v, "-"))
          /\ last.ret[2] # Str(strftime(Today(last.at), "-"))

\* C7 as amended: a successful live resolution carries the day its table
\* was fetched, which is the day of the attempt when the attempt fetched
\* and that day or the day before when it was served from the cache; a
\* successful historical one carries the requested date and never today.
C7_LiveAsOfIsFetchDay ==
    /\ Live /\ Resolved =>
          LET fetched_at == live_log[last.from_currency].at
          IN /\ last.ret[2] = Str(strftime(Today(fetched_at), "-"))
             /\ Fetched => fetched_at = last.at
             /\ Today(last.at) - Today(fetched_at) \in {0, 1}
    /\ Historical /\ Resolved =>
          /\ last.ret[2] = Str(strftime(last.query_date.v, "-"))
          /\ last.ret[2] # Str(strftime(Today(last.at), "-"))

\* a live table served from the cache on the day after it was fetched
C7_Witness ==
    /\ Live /\ Resolved /\ ~Fetched
    /\ Today(last.at) = Today(live_log[last.from_currency].at) + 1

\* the table of the answer the attempt's request got
AnswerRates == last.answers[1].rates
SuccessAnswer ==
    /\ Fetched /\ last.answers[1].connected /\ StatusOk(last.answers[1])
    /\ last.answers[1].result = "success"

\* C8 as stated: with a success answer, the historical resolution fails
\* with "not available" exactly when the base is absent from the table, and
\* returns a table when it is present.
C8_UnavailableIffAbsent ==
    Historical /\ SuccessAnswer =>
        /\ Shown(BaseUnavailable) <=> last.from_currency \notin DOMAIN AnswerRates
        /\ last.from_currency \in DOMAIN AnswerRates => Resolved

\* C8 as amended: it fails so exactly when the base is absent from the
\* table or its rate there is zero; the failure is (None, None), and
\* otherwise a table is returned.
C8_UnavailableIffAbsentOrZero ==
    Historical /\ SuccessAnswer =>
        LET unusable == \/ last.from_currency \notin DOMAIN AnswerRates
                        \/ AnswerRates[last.from_currency][1] = 0
        IN /\ Shown(BaseUnavailable) <=> unusable
           /\ unusable => last.ret = Failed /\ last.result = <<>>
           /\ ~unusable => Resolved /\ last.ret[1].t = "dict"

\* a base listed with the rate zero, reported as not available
C8_Witness ==
    /\ Historical /\ SuccessAnswer /\ Shown(BaseUnavailable)
    /\ last.from_currency \in DOMAIN AnswerRates

\* C9: the table a historical resolution returns has the keys of the
\* USD-based table and adjusted[c] = usdRate[c] / usdRate[base] for each,
\* so adjusted[base] = 1; with base USD at rate 1 it is the table itself.
C9_Rebasing ==
    Historical /\ SuccessAnswer /\ Resolved =>
        LET adjusted == last.ret[1].v
            base == AnswerRates[last.from_currency]
        IN /\ DOMAIN adjusted = DOMAIN AnswerRates
           /\ \A c \in DOMAIN adjusted :
                 /\ adjusted[c][2] > 0
                 /\ adjusted[c][1] * base[1] * AnswerRates[c][2]
                       = adjusted[c][2] * base[2] * AnswerRates[c][1]
           /\ adjusted[last.from_currency] = <<1, 1>>
           /\ (last.from_currency = "USD" /\ base = <<1, 1>>) => adjusted = AnswerRates

\* a table re-based by a base whose rate is not 1, with another currency in it
C9_Witness ==
    /\ Historical /\ SuccessAnswer /\ Resolved
    /\ AnswerRates[last.from_currency] = <<2, 1>>
    /\ \E c \in DOMAIN AnswerRates : last.ret[1].v[c] = <<1, 2>>

\* C10: with a table returned, a target that is not in it ends in the
\* "Could not find the exchange rate" error and no amount; a target that is
\* in it ends in amount * rates[to_currency] rendered.
C10_MissingTargetKey ==
    Attempted /\ Resolved =>
        LET rates == last.ret[1].v
        IN /\ last.to_currency \notin DOMAIN rates =>
                 Shown(RateNotFound) /\ last.result = <<>>
           /\ last.to_currency \in DOMAIN rates =>
                 /\ last.result # <<>>
                 /\ last.result[1].converted_amount
                       = Times(last.amount, rates[last.to_currency])

=============================================================================
